---- MODULE Spec2Model ----
(***************************************************************************)
(* Model of cssSelectorBuilder (src/src/05-objects-tasks.js, lines 112-176).*)
(*                                                                         *)
(* The heap is the sequence of builder objects that exist: heap[1] is the  *)
(* facade object literal; every later entry is an object made by           *)
(* Object.create(this) in returnNewObj or combine and handed back to the   *)
(* caller.  An object holds its prototype link and its OWN properties;     *)
(* a property that is not own is looked up along the prototype chain, as   *)
(* JavaScript does.  Strings are TLA+ strings, \o is string concatenation. *)
(***************************************************************************)
EXTENDS Integers, Sequences, FiniteSets, TLC

\* ---------------------------------------------------------------- bounds
\* The caller stops calling once this many objects exist, the facade
\* included.
MaxHeap == 4

\* Values the caller passes to the six fragment methods.
Names == {"a"}

\* Combinators the caller passes to combine.
Combinators == {"+"}

\* ---------------------------------------------------------------- state
VARIABLES
  heap,   \* the builder objects; heap[1] is cssSelectorBuilder itself
  out,    \* what the most recent call gave back: error, object or string
  call,   \* history: the most recent call (method, receiver, arguments)
  made    \* history: made[i] is the call that created heap[i]

vars == <<heap, out, call, made>>

\* Index of the facade object and of Object.prototype (no builder fields).
Facade == 1
NoObj == 0

\* Messages of the two errors thrown by the checks.
DoubleMsg == "Element, id and pseudo-element should not occur more then one time inside the selector"
OrderMsg == "Selector parts should be arranged in the following order: element, id, class, attribute, pseudo-class, pseudo-element"
NoError == ""

\* ------------------------------------------------------ property lookup
\* JavaScript property read o.f on heap h: the own property when there is
\* one, otherwise the prototype's.
RECURSIVE Get(_, _, _)
Get(h, o, f) ==
  IF f \in h[o].own THEN h[o][f] ELSE Get(h, h[o].proto, f)

\* this.result and this.arrUsed in the current heap.
Result(o) == Get(heap, o, "result")
ArrUsed(o) == Get(heap, o, "arrUsed")

\* ---------------------------------------------------------------- checks
\* arr.filter((i) => i === k).length
Count(arr, k) == Len(SelectSeq(arr, LAMBDA i : i = k))

\* Variant: the pseudo-element count is left out of the test.
checkOnDouble_noPseudo(arr) ==
  \/ Count(arr, 0) > 1
  \/ Count(arr, 1) > 1

\* checkOnDouble(arr): TRUE when it throws.
checkOnDouble(arr) ==
  \/ Count(arr, 0) > 1
  \/ Count(arr, 1) > 1
  \/ Count(arr, 5) > 1

\* Variant: the comparison is >= instead of >.
checkPositions_geq(arr) ==
  \E idx \in 1..Len(arr) : idx + 1 <= Len(arr) /\ arr[idx] >= arr[idx + 1]

\* Variant: only the first two entries are compared.
checkPositions_firstPair(arr) ==
  Len(arr) >= 2 /\ arr[1] > arr[2]

\* checkPositions(arr): TRUE when it throws.  For the last index
\* arr[idx + 1] is undefined and the comparison is false.
checkPositions(arr) ==
  \E idx \in 1..Len(arr) : idx + 1 <= Len(arr) /\ arr[idx] > arr[idx + 1]

\* Variant: checkPositions is called before checkOnDouble.
Thrown_orderFirst(arr) ==
  IF checkPositions(arr) THEN OrderMsg
  ELSE IF checkOnDouble(arr) THEN DoubleMsg
  ELSE NoError

\* Variant: the two messages are exchanged between the checks.
Thrown_msgSwapped(arr) ==
  IF checkOnDouble(arr) THEN OrderMsg
  ELSE IF checkPositions(arr) THEN DoubleMsg
  ELSE NoError

\* The error returnNewObj ends with for the candidate sequence arr:
\* checkOnDouble runs first, then checkPositions.
Thrown(arr) ==
  IF checkOnDouble(arr) THEN DoubleMsg
  ELSE IF checkPositions(arr) THEN OrderMsg
  ELSE NoError

\* ------------------------------------------------------------ operations
\* The three ways a call ends.
Threw(msg) == [err |-> msg, ret |-> NoObj, str |-> ""]
Returned(o) == [err |-> NoError, ret |-> o, str |-> ""]
ReturnedStr(s) == [err |-> NoError, ret |-> NoObj, str |-> s]

\* Variant: the new text is put in front (val + this.result).
returnNewObj_prepend(this, val, pos) ==
  LET obj == [proto |-> this, own |-> {"arrUsed", "result"},
              arrUsed |-> ArrUsed(this) \o <<pos>>,
              result |-> val \o Result(this)]
  IN IF Thrown(obj.arrUsed) # NoError
     THEN /\ heap' = heap
          /\ out' = Threw(Thrown(obj.arrUsed))
     ELSE /\ heap' = Append(heap, obj)
          /\ out' = Returned(Len(heap) + 1)

\* Variant: this.arrUsed.push(pos) instead of concat: the array found
\* along the prototype chain is extended in place, then copied to obj.
RECURSIVE OwnerOf(_, _, _)
OwnerOf(h, o, f) == IF f \in h[o].own THEN o ELSE OwnerOf(h, h[o].proto, f)
returnNewObj_push(this, val, pos) ==
  LET pushed == [heap EXCEPT ![OwnerOf(heap, this, "arrUsed")].arrUsed =
                               @ \o <<pos>>]
      obj == [proto |-> this, own |-> {"arrUsed", "result"},
              arrUsed |-> ArrUsed(this) \o <<pos>>,
              result |-> Result(this) \o val]
  IN IF Thrown(obj.arrUsed) # NoError
     THEN /\ heap' = pushed
          /\ out' = Threw(Thrown(obj.arrUsed))
     ELSE /\ heap' = Append(pushed, obj)
          /\ out' = Returned(Len(heap) + 1)

\* returnNewObj(val, pos) on receiver this.  obj becomes part of the heap
\* only when it is returned; a throw drops it.
returnNewObj(this, val, pos) ==
  LET obj == [proto |-> this, own |-> {"arrUsed", "result"},
              arrUsed |-> ArrUsed(this) \o <<pos>>,
              result |-> Result(this) \o val]
  IN IF Thrown(obj.arrUsed) # NoError
     THEN /\ heap' = heap
          /\ out' = Threw(Thrown(obj.arrUsed))
     ELSE /\ heap' = Append(heap, obj)
          /\ out' = Returned(Len(heap) + 1)

\* History of the call just made: c is the call, and it is the maker of
\* the object the call added to the heap, if it added one.
Call(op, this, arg, s1, s2) ==
  [op |-> op, this |-> this, arg |-> arg, s1 |-> s1, s2 |-> s2]
NoCall == Call("none", NoObj, "", NoObj, NoObj)
Record(c) ==
  /\ call' = c
  /\ made' = IF Len(heap') > Len(heap) THEN Append(made, c) ELSE made

element(this, value) ==
  /\ returnNewObj(this, value, 0)
  /\ Record(Call("element", this, value, NoObj, NoObj))

id(this, value) ==
  /\ returnNewObj(this, "#" \o value, 1)
  /\ Record(Call("id", this, value, NoObj, NoObj))

class(this, value) ==
  /\ returnNewObj(this, "." \o value, 2)
  /\ Record(Call("class", this, value, NoObj, NoObj))

attr(this, value) ==
  /\ returnNewObj(this, "[" \o value \o "]", 3)
  /\ Record(Call("attr", this, value, NoObj, NoObj))

pseudoClass(this, value) ==
  /\ returnNewObj(this, ":" \o value, 4)
  /\ Record(Call("pseudoClass", this, value, NoObj, NoObj))

pseudoElement(this, value) ==
  /\ returnNewObj(this, "::" \o value, 5)
  /\ Record(Call("pseudoElement", this, value, NoObj, NoObj))

\* Variant: the combinator is joined without the two spaces.
combineObj_noSpaces(this, selector1, combinator, selector2) ==
  [proto |-> this, own |-> {"result"}, arrUsed |-> <<>>,
   result |-> Result(selector1) \o combinator \o Result(selector2)]

\* Variant: the new object gets an empty arrUsed of its own.
combineObj_ownKinds(this, selector1, combinator, selector2) ==
  [proto |-> this, own |-> {"arrUsed", "result"}, arrUsed |-> <<>>,
   result |-> Result(selector1) \o " " \o combinator \o " "
              \o Result(selector2)]

\* Variant: combine runs the two checks on the operands' joined kinds.
combine_validating(this, selector1, combinator, selector2) ==
  LET arr == ArrUsed(selector1) \o ArrUsed(selector2)
      object == [proto |-> this, own |-> {"result"}, arrUsed |-> <<>>,
                 result |-> Result(selector1) \o " " \o combinator \o " "
                            \o Result(selector2)]
  IN /\ IF Thrown(arr) # NoError
        THEN /\ heap' = heap
             /\ out' = Threw(Thrown(arr))
        ELSE /\ heap' = Append(heap, object)
             /\ out' = Returned(Len(heap) + 1)
     /\ Record(Call("combine", this, combinator, selector1, selector2))

\* Variant: the new object gets the operands' kinds, joined, as its own.
combineObj_operandKinds(this, selector1, combinator, selector2) ==
  [proto |-> this, own |-> {"arrUsed", "result"},
   arrUsed |-> ArrUsed(selector1) \o ArrUsed(selector2),
   result |-> Result(selector1) \o " " \o combinator \o " "
              \o Result(selector2)]

\* combine(selector1, combinator, selector2) on receiver this: the new
\* object owns result only; arrUsed stays inherited from this.
combineObj(this, selector1, combinator, selector2) ==
  [proto |-> this, own |-> {"result"}, arrUsed |-> <<>>,
   result |-> Result(selector1) \o " " \o combinator \o " "
              \o Result(selector2)]

combine(this, selector1, combinator, selector2) ==
  /\ heap' = Append(heap, combineObj(this, selector1, combinator, selector2))
  /\ out' = Returned(Len(heap) + 1)
  /\ Record(Call("combine", this, combinator, selector1, selector2))

\* Variant: stringify hands the text out and clears it on the receiver.
stringify_flush(this) ==
  /\ heap' = [heap EXCEPT ![this].result = "",
                          ![this].own = @ \cup {"result"}]
  /\ out' = ReturnedStr(Result(this))
  /\ Record(Call("stringify", this, "", NoObj, NoObj))

\* stringify() on receiver this.
stringify(this) ==
  /\ heap' = heap
  /\ out' = ReturnedStr(Result(this))
  /\ Record(Call("stringify", this, "", NoObj, NoObj))

\* ------------------------------------------------------------------ spec
Init ==
  /\ heap = << [proto |-> NoObj, own |-> {"arrUsed", "result"},
                arrUsed |-> <<>>, result |-> ""] >>
  /\ out = Returned(NoObj)
  /\ call = NoCall
  /\ made = << NoCall >>

Objs == DOMAIN heap

\* The caller may call any method on any object it holds.
Next ==
  /\ Len(heap) < MaxHeap
  /\ \/ \E this \in Objs, v \in Names : element(this, v)
     \/ \E this \in Objs, v \in Names : id(this, v)
     \/ \E this \in Objs, v \in Names : class(this, v)
     \/ \E this \in Objs, v \in Names : attr(this, v)
     \/ \E this \in Objs, v \in Names : pseudoClass(this, v)
     \/ \E this \in Objs, v \in Names : pseudoElement(this, v)
     \/ \E this \in Objs, s1 \in Objs, s2 \in Objs, c \in Combinators :
          combine(this, s1, c, s2)
     \/ \E this \in Objs : stringify(this)

Spec == Init /\ [][Next]_vars

\* ====================================================================
\* Properties.  The definitions below state what the specification says;
\* they are written from its tables, not from the operators above.
\* ====================================================================
FragmentOps ==
  {"element", "id", "class", "attr", "pseudoClass", "pseudoElement"}

\* Rank of a fragment kind: element 0, id 1, class 2, attribute 3,
\* pseudo-class 4, pseudo-element 5.
Rank(op) ==
  CASE op = "element" -> 0
    [] op = "id" -> 1
    [] op = "class" -> 2
    [] op = "attr" -> 3
    [] op = "pseudoClass" -> 4
    [] op = "pseudoElement" -> 5

\* Literal rendering of a fragment: name, #name, .name, [content],
\* :name, ::name.
Rendering(op, name) ==
  CASE op = "element" -> name
    [] op = "id" -> "#" \o name
    [] op = "class" -> "." \o name
    [] op = "attr" -> "[" \o name \o "]"
    [] op = "pseudoClass" -> ":" \o name
    [] op = "pseudoElement" -> "::" \o name

Range(seq) == {seq[k] : k \in DOMAIN seq}

\* Kinds that may occur once only.
Unique == {0, 1, 5}

\* The most recent call was one of the six fragment methods.
Appended == call.op \in FragmentOps

\* Object i was reached from the facade by accepted appends only.
RECURSIVE PureChain(_)
PureChain(i) ==
  \/ i = Facade
  \/ /\ made[i].op \in FragmentOps
     /\ PureChain(made[i].this)

\* Concatenation, in append order, of the renderings of the fragments
\* appended on the way from the facade to i.
RECURSIVE Expected(_)
Expected(i) ==
  IF i = Facade THEN ""
  ELSE Expected(made[i].this) \o Rendering(made[i].op, made[i].arg)

\* C1: for every chain of accepted appends started from the facade, the
\* text of the final builder, and the string stringify() returns for it,
\* is the concatenation in append order, with no separators, of the
\* fragments' renderings.
C1_StringifyIsConcatenation ==
  /\ \A i \in Objs : PureChain(i) => Result(i) = Expected(i)
  /\ (call.op = "stringify" /\ PureChain(call.this))
       => out.str = Expected(call.this)

\* stringify() has returned "a#a" for the chain element('a').id('a').
C1_Witness ==
  /\ call.op = "stringify"
  /\ PureChain(call.this)
  /\ made[call.this].op = "id"
  /\ made[made[call.this].this].op = "element"
  /\ out.str = "a#a"

\* C2: appending element, id or pseudoElement to a builder whose kind
\* sequence already contains that kind fails with the DuplicateFragment
\* error; appending class, attr or pseudoClass never fails with it.
C2_Cardinality ==
  Appended =>
    /\ (Rank(call.op) \in Unique /\ Rank(call.op) \in Range(ArrUsed(call.this)))
         => out.err = DoubleMsg
    /\ Rank(call.op) \notin Unique => out.err # DoubleMsg

\* id, class, then id again: the second id is refused as a duplicate
\* although a class was appended in between.
C2_Witness ==
  /\ call.op = "id"
  /\ ArrUsed(call.this) = <<1, 2>>
  /\ out.err = DoubleMsg

\* C3: appending a fragment of rank strictly lower than some rank already
\* in the receiver's kind sequence fails with the OutOfOrder error unless
\* the append also violates cardinality; appending a fragment of rank
\* equal to or higher than every rank present never fails with OutOfOrder.
C3_Ordering ==
  Appended =>
    LET r == Rank(call.op)
        arr == ArrUsed(call.this)
    IN /\ ( /\ \E k \in Range(arr) : r < k
            /\ ~(r \in Unique /\ r \in Range(arr)) )
          => out.err = OrderMsg
       /\ (\A k \in Range(arr) : r >= k) => out.err # OrderMsg

\* attr then class: the class is refused as out of order.
C3_Witness ==
  /\ call.op = "class"
  /\ ArrUsed(call.this) = <<3>>
  /\ out.err = OrderMsg

\* C4: when one append violates both the cardinality rule and the
\* ordering rule, the error is DuplicateFragment, not OutOfOrder.
C4_CardinalityFirst ==
  ( /\ Appended
    /\ Rank(call.op) \in Unique
    /\ Rank(call.op) \in Range(ArrUsed(call.this))
    /\ \E k \in Range(ArrUsed(call.this)) : Rank(call.op) < k )
  => (out.err = DoubleMsg /\ out.err # OrderMsg)

\* element, id, then element again.
C4_Witness ==
  /\ call.op = "element"
  /\ ArrUsed(call.this) = <<0, 1>>
  /\ out.err = DoubleMsg

\* Text and kind sequence of object i on heap h.
TextIn(h, i) == Get(h, i, "result")
KindsIn(h, i) == Get(h, i, "arrUsed")

\* Every object that exists before the step reads the same after it.
SameBuilders ==
  \A i \in DOMAIN heap :
    /\ i \in DOMAIN heap'
    /\ TextIn(heap', i) = TextIn(heap, i)
    /\ KindsIn(heap', i) = KindsIn(heap, i)

\* Every object made by an append reads as its receiver extended by that
\* one fragment, whatever else was made from the same receiver.
ExtensionsIndependent ==
  \A j \in Objs :
    made[j].op \in FragmentOps =>
      /\ Result(j) = Result(made[j].this) \o Rendering(made[j].op, made[j].arg)
      /\ ArrUsed(j) = ArrUsed(made[j].this) \o <<Rank(made[j].op)>>

\* C5: a successful append and a combine mutate no existing builder: the
\* text and kind sequence of the receiver, of the operands and of every
\* other builder are the same after the call, and each extension of a
\* builder reads as if the other extensions had never been made.
C5_NoMutation ==
  [][Len(heap') > Len(heap) => (SameBuilders /\ ExtensionsIndependent')]_vars

\* One builder that is not the facade has been extended in two ways.
C5_Witness ==
  \E i \in Objs, j \in Objs :
    /\ made[i].op \in FragmentOps
    /\ made[j].op \in FragmentOps
    /\ made[i].op # made[j].op
    /\ made[i].this = made[j].this
    /\ made[i].this # Facade

\* C6: a failed append returns no builder and changes nothing: the heap
\* is the same, so every append is accepted or refused on every builder
\* exactly as before the failed call, with the same text.
C6_FailedAppendIsNoTransition ==
  [][(out'.err # NoError /\ call'.op \in FragmentOps) =>
       /\ out'.ret = NoObj
       /\ heap' = heap
       /\ made' = made
       /\ \A b \in DOMAIN heap, r \in 0..5 :
            /\ Thrown(KindsIn(heap', b) \o <<r>>) = Thrown(KindsIn(heap, b) \o <<r>>)
            /\ TextIn(heap', b) = TextIn(heap, b)]_vars

\* An append has failed on a builder that holds two fragments.
C6_Witness ==
  /\ Appended
  /\ out.err # NoError
  /\ out.ret = NoObj
  /\ Len(ArrUsed(call.this)) = 2

\* C7: the text of combine(l, c, r) is the text of l, one space, c, one
\* space, the text of r, also when l or r is itself a result of combine;
\* stringify() on the result returns that text.
C7_CombineText ==
  /\ \A i \in Objs :
       made[i].op = "combine" =>
         Result(i) = Result(made[i].s1) \o " " \o made[i].arg \o " "
                     \o Result(made[i].s2)
  /\ (call.op = "stringify" /\ made[call.this].op = "combine") =>
       out.str = Result(made[call.this].s1) \o " " \o made[call.this].arg
                 \o " " \o Result(made[call.this].s2)

\* A nested combination: combine(combine(a, +, a), +, a) reads
\* "a + a + a".
C7_Witness ==
  \E i \in Objs :
    /\ made[i].op = "combine"
    /\ made[made[i].s1].op = "combine"
    /\ made[made[i].s2].op = "element"
    /\ Result(i) = "a + a + a"

\* C8: combine and stringify never end with an error, whatever the
\* operands and the receiver: combine returns a new object even when the
\* operands together repeat a once-only kind or are out of rank order.
C8_CombineStringifyNeverThrow ==
  /\ call.op \in {"combine", "stringify"} => out.err = NoError
  /\ call.op = "combine" => out.ret = Len(heap)

\* combine has returned for two operands that both hold an element.
C8_Witness ==
  /\ call.op = "combine"
  /\ 0 \in Range(ArrUsed(call.s1))
  /\ 0 \in Range(ArrUsed(call.s2))
  /\ out.ret = Len(heap)

\* C9 as stated: the selector returned by combine has an empty kind
\* sequence, whatever the builder combine is invoked on.
C9_CombineKindsEmpty ==
  \A i \in Objs : made[i].op = "combine" => ArrUsed(i) = <<>>

\* C9 amended: the selector returned by combine has no kind sequence of
\* its own and reads that of the builder combine was invoked on, which is
\* empty when that builder is the facade; the kind sequences of the two
\* operands play no part.
C9_CombineKindsOfReceiver ==
  \A i \in Objs :
    made[i].op = "combine" =>
      /\ ArrUsed(i) = ArrUsed(made[i].this)
      /\ made[i].this = Facade => ArrUsed(i) = <<>>

\* combine invoked on a builder that holds an element, with the facade as
\* both operands: the result reads the receiver's kind sequence.
C9_Witness ==
  \E i \in Objs :
    /\ made[i].op = "combine"
    /\ made[i].this # Facade
    /\ ArrUsed(made[i].s1) = <<>>
    /\ ArrUsed(made[i].s2) = <<>>
    /\ ArrUsed(i) = <<0>>

\* C10: stringify() is a pure read: it returns the receiver's text and
\* changes no builder, and no other call changes the text a builder has,
\* so every call of stringify() on one builder returns the same string.
C10_StringifyPure ==
  [][/\ call'.op = "stringify" =>
          /\ out'.str = TextIn(heap, call'.this)
          /\ heap' = heap
     /\ \A i \in DOMAIN heap : TextIn(heap', i) = TextIn(heap, i)]_vars

\* stringify() has returned the text of a builder made by an append.
C10_Witness ==
  /\ call.op = "stringify"
  /\ made[call.this].op \in FragmentOps
  /\ out.str = Result(call.this)
  /\ out.str # ""

\* A kind sequence breaks the cardinality rule: element, id or
\* pseudo-element occurs in it more than once.
Repeats(seq) ==
  \E k \in Unique : Cardinality({n \in DOMAIN seq : seq[n] = k}) > 1

\* A kind sequence breaks the ordering rule: some rank is followed
\* directly by a lower one.
Descends(seq) ==
  \E n \in DOMAIN seq : n + 1 \in DOMAIN seq /\ seq[n] > seq[n + 1]

\* The sequence the most recent append was validated as: the receiver's
\* kinds followed by the new rank.
Candidate == ArrUsed(call.this) \o <<Rank(call.op)>>

\* C11 as stated: a cardinality failure carries the message ending
\* "inside the selector." and an ordering failure the message ending
\* "pseudo-class, pseudo-element.", each with its final full stop.
C11_MessagesWithFullStop ==
  (Appended /\ out.err # NoError) =>
    IF Repeats(Candidate)
    THEN out.err = "Element, id and pseudo-element should not occur more then one time inside the selector."
    ELSE out.err = "Selector parts should be arranged in the following order: element, id, class, attribute, pseudo-class, pseudo-element."

\* C11 amended: the two messages are those texts without the final full
\* stop.
C11_MessagesNoFullStop ==
  (Appended /\ out.err # NoError) =>
    IF Repeats(Candidate)
    THEN out.err = "Element, id and pseudo-element should not occur more then one time inside the selector"
    ELSE out.err = "Selector parts should be arranged in the following order: element, id, class, attribute, pseudo-class, pseudo-element"

\* An append has failed on the ordering rule alone: class, then id.
C11_Witness ==
  /\ call.op = "id"
  /\ ArrUsed(call.this) = <<2>>
  /\ out.err # NoError
  /\ ~Repeats(Candidate)
  /\ Descends(Candidate)

\* A kind sequence is valid: non-decreasing in rank, with element, id and
\* pseudo-element at most once each.
Valid(seq) ==
  /\ \A n \in DOMAIN seq : n + 1 \in DOMAIN seq => seq[n] <= seq[n + 1]
  /\ \A k \in Unique : Cardinality({n \in DOMAIN seq : seq[n] = k}) <= 1

\* C12: every builder returned by an append or a combine, on any
\* receiver, has a kind sequence that is non-decreasing in rank and holds
\* element, id and pseudo-element at most once each.
C12_ReturnedBuildersValid ==
  /\ \A i \in Objs : Valid(ArrUsed(i))
  /\ out.ret # NoObj => Valid(ArrUsed(out.ret))

\* A builder with three fragments, two of one repeatable kind, has been
\* returned: element, class, class.
C12_Witness ==
  /\ call.op = "class"
  /\ out.ret = Len(heap)
  /\ ArrUsed(out.ret) = <<0, 2, 2>>

\* C13: the facade stays empty after any calls: its text is "" and its
\* kind sequence is empty, so an append on the facade is always accepted
\* and every builder made from the facade by one append holds that one
\* fragment only.
C13_FacadeStaysEmpty ==
  /\ Result(Facade) = ""
  /\ ArrUsed(Facade) = <<>>
  /\ (Appended /\ call.this = Facade) => out.err = NoError
  /\ \A i \in Objs :
       (made[i].op \in FragmentOps /\ made[i].this = Facade) =>
         /\ Result(i) = Rendering(made[i].op, made[i].arg)
         /\ ArrUsed(i) = <<Rank(made[i].op)>>

\* A second chain has been started from the facade with an element after
\* a first chain element, id was built from it.
C13_Witness ==
  /\ Len(heap) = 4
  /\ made[2].op = "element" /\ made[2].this = Facade
  /\ made[3].op = "id" /\ made[3].this = 2
  /\ call.op = "element" /\ call.this = Facade
  /\ out.ret = 4
  /\ Result(4) = "a"

\* The check against the last fragment only: the receiver's sequence is
\* empty or r is at least its last rank, and r is repeatable or does not
\* occur in it.
LastOnly(seq, r) ==
  /\ (seq = <<>> \/ r >= seq[Len(seq)])
  /\ (r \notin Unique \/ r \notin Range(seq))

\* C14: for every builder b and every rank r, appending r to b is
\* accepted exactly when the check against b's last fragment accepts it;
\* the appends that were made ended accordingly.
C14_LastFragmentCheck ==
  /\ \A b \in Objs, r \in 0..5 :
       (Thrown(ArrUsed(b) \o <<r>>) = NoError) <=> LastOnly(ArrUsed(b), r)
  /\ Appended =>
       ((out.err = NoError) <=> LastOnly(ArrUsed(call.this), Rank(call.op)))

\* An id was refused on element, class: it is lower than the last rank
\* although it is higher than the first and does not occur yet.
C14_Witness ==
  /\ call.op = "id"
  /\ ArrUsed(call.this) = <<0, 2>>
  /\ out.err # NoError

\* C15: an append on a result of combine is validated against the kind
\* sequence of the builder combine was invoked on, never against the
\* operands' fragments; when accepted, the rendering follows the right
\* operand's text directly.
C15_AppendAfterCombine ==
  /\ (Appended /\ made[call.this].op = "combine") =>
       ((out.err = NoError) <=>
          Valid(ArrUsed(made[call.this].this) \o <<Rank(call.op)>>))
  /\ \A i \in Objs :
       (made[i].op \in FragmentOps /\ made[made[i].this].op = "combine") =>
         LET c == made[made[i].this]
         IN /\ Result(i) = Result(c.s1) \o " " \o c.arg \o " "
                            \o Result(c.s2)
                            \o Rendering(made[i].op, made[i].arg)
            /\ ArrUsed(i) = ArrUsed(c.this) \o <<Rank(made[i].op)>>

\* combine(element a, '+', element a) on the facade, then element a: the
\* third element is accepted and the builder reads "a + aa".
C15_Witness ==
  /\ call.op = "element"
  /\ out.ret = Len(heap)
  /\ made[call.this].op = "combine"
  /\ made[call.this].this = Facade
  /\ made[made[call.this].s1].op = "element"
  /\ made[made[call.this].s2].op = "element"
  /\ Result(out.ret) = "a + aa"

====
